---- MODULE Spec2Model ----
(***************************************************************************)
(* Invitation redemption in Wizarr: the Komga and RomM clients' join, the  *)
(* public POST /join and /j/<code>/password routes, and the legacy connect *)
(* handler, over the Invitation / User / MediaServer tables.               *)
(***************************************************************************)
EXTENDS Integers, Sequences, FiniteSets, TLC

(* ------------------------------ bounds -------------------------------- *)
MaxTime == 1
MaxUid == 2
MaxOauth == 2
MaxRows == 2
MaxServers == 2
MaxServerId == 3

(* ------------------------- nullable columns --------------------------- *)
NoServer == 0
NoUser == 0
NoExpiry == -1
NoDuration == 0
NoToken == 0
NoCode == <<>>

(* ------------------------------ strings ------------------------------- *)
\* A string is a sequence of one-character strings.
UpperLetters == {"A", "B", "C", "D", "E", "F", "Z"}
LowerLetters == {"a", "b", "c", "d", "e", "f", "i", "o", "x", "z"}
Digits == {"1"}

LowerOf(c) ==
    CASE c = "A" -> "a" [] c = "B" -> "b" [] c = "C" -> "c"
      [] c = "D" -> "d" [] c = "E" -> "e" [] c = "F" -> "f"
      [] c = "Z" -> "z" [] OTHER -> c

lower(s) == [i \in 1..Len(s) |-> LowerOf(s[i])]

\* EMAIL_RE = ^[A-Za-z0-9._%+-]+@[A-Za-z0-9.-]+\.[A-Za-z]{2,7}$
EmailLocalChars == UpperLetters \cup LowerLetters \cup Digits \cup {".", "_", "%", "+", "-"}
EmailDomainChars == UpperLetters \cup LowerLetters \cup Digits \cup {".", "-"}
EmailTldChars == UpperLetters \cup LowerLetters

EMAIL_RE(s) ==
    \E i \in 1..Len(s) : \E j \in 1..Len(s) :
        /\ s[i] = "@"
        /\ s[j] = "."
        /\ 1 < i
        /\ i + 1 < j
        /\ \A k \in 1..(i - 1) : s[k] \in EmailLocalChars
        /\ \A k \in (i + 1)..(j - 1) : s[k] \in EmailDomainChars
        /\ Len(s) - j >= 2
        /\ Len(s) - j <= 7
        /\ \A k \in (j + 1)..Len(s) : s[k] \in EmailTldChars

Range(f) == {f[i] : i \in DOMAIN f}

(* ------------------------------- state -------------------------------- *)
VARIABLES
    servers,      \* MediaServer rows
    invitations,  \* Invitation rows, by id
    ledger,       \* (invitation id, server id) pairs marked provisioned
    users,        \* local User rows
    nextUserId,   \* next primary key of the user table
    remote,       \* accounts that exist on the vendors' side
    nextUid,      \* next id a vendor hands out
    now,          \* wall clock
    session,      \* the redeemer's browser session
    oauth,        \* legacy Oauth records, by id
    okJoins,      \* per invitation id: joins on its code that returned (True, "")
    libraries,    \* Library rows
    calls,        \* join calls in progress, by caller
    steps,        \* WizardStep rows
    last          \* what the most recent request did

vars == <<servers, invitations, ledger, users, nextUserId, remote, nextUid,
          now, session, oauth, okJoins, libraries, calls, steps, last>>

(* ------------------------------ lookups ------------------------------- *)
ServerIds == {s.id : s \in servers}

ServerRow(sid) == CHOOSE s \in servers : s.id = sid

ServerTypeOf(sid) == IF sid \in ServerIds THEN ServerRow(sid).server_type ELSE "none"

\* MediaServer.query.first(): the row with the smallest primary key.
FirstServer == IF servers = {} THEN NoServer ELSE CHOOSE i \in ServerIds : \A j \in ServerIds : i <= j

InvIds == DOMAIN invitations

\* Invitation.query.filter(func.lower(Invitation.code) == code.lower()).first()
InvByCodeLower(invs, code) ==
    LET hits == {i \in DOMAIN invs : lower(invs[i].code) = lower(code)}
    IN  IF hits = {} THEN 0 ELSE CHOOSE i \in hits : \A j \in hits : i <= j

\* Invitation.query.filter_by(code=code).first(): exact, case-sensitive match.
InvByCodeExact(invs, code) ==
    LET hits == {i \in DOMAIN invs : invs[i].code = code}
    IN  IF hits = {} THEN 0 ELSE CHOOSE i \in hits : \A j \in hits : i <= j

(* --------------------------- app.services.invites --------------------- *)
\* validate(code) -> (ok, reason): exists, then not expired, then not used up.
is_invite_valid(invs, t, code) ==
    LET i == InvByCodeLower(invs, code)
    IN  IF i = 0 THEN [ok |-> FALSE, msg |-> "NOT_FOUND"]
        ELSE IF invs[i].expires # NoExpiry /\ invs[i].expires <= t
             THEN [ok |-> FALSE, msg |-> "EXPIRED"]
        ELSE IF invs[i].used /\ ~invs[i].unlimited
             THEN [ok |-> FALSE, msg |-> "ALREADY_USED"]
        ELSE [ok |-> TRUE, msg |-> ""]

\* The ledger after marking (invitation i, server sid) provisioned.
LedgerMarked(led, i, sid) == led \cup {<<i, sid>>}

\* mark_server_used(inv, server_id): mark the ledger entry done; the invitation
\* itself is used once every attached server has its ledger entry.
mark_server_used(invs, led, i, sid) ==
    LET led2 == LedgerMarked(led, i, sid)
        full == \A s \in Range(invs[i].servers) : <<i, s>> \in led2
    IN  [invs EXCEPT ![i].used = invs[i].used \/ full]

(* ----------------------------- vendor side ---------------------------- *)
\* What one HTTP exchange with a vendor can come to: 201 with the new id, 201
\* with a body that carries no id, a 422 validation error, another HTTP error,
\* or a transport failure (no response at all).
VendorResponses == {"201", "201_noid", "422", "500", "conn"}

Created(r) == r \in {"201", "201_noid"}

\* One entry of a request's log: a call, an HTTP exchange, a commit or a rollback.
Ev(kind, sid) == [kind |-> kind, server |-> sid, username |-> <<>>, password |-> <<>>]

\* The log entry of a create_user call with its arguments.
EvCreate(sid, username, password) ==
    [kind |-> "create_user", server |-> sid, username |-> username, password |-> password]

\* The last event of a create_user call: it returned an id, returned None, or raised.
Returned(raised, hasId) == IF raised THEN "raise" ELSE IF hasId THEN "uid" ELSE "none"

\* KomgaClient.create_user: one POST; any HTTP error, transport failure or
\* missing "id" key raises.
KomgaCreateUser(sid, username, password, r1) ==
    [events  |-> <<EvCreate(sid, username, password), Ev("post_json", sid), Ev(Returned(r1 # "201", TRUE), sid)>>,
     raised  |-> r1 # "201",
     hasId   |-> r1 = "201",
     created |-> Created(r1)]

\* Mutant: the fallback request is also sent after a 500.
RommCreateUser_RetryOn500(sid, username, password, r1, r2) ==
    LET second == r1 \in {"422", "500"}
        final  == IF second THEN r2 ELSE r1
        raised == r1 = "conn" \/ (second /\ r2 = "conn")
    IN  [events  |-> <<EvCreate(sid, username, password), Ev("post_params", sid), Ev(r1, sid)>>
                     \o (IF second THEN <<Ev("post_json_confirm", sid), Ev(r2, sid)>> ELSE <<>>)
                     \o <<Ev(Returned(raised, final = "201"), sid)>>,
         raised  |-> raised,
         hasId   |-> final = "201",
         created |-> Created(r1) \/ (second /\ Created(r2))]

\* RommClient.create_user: POST with query parameters; on 422 one more POST
\* with a JSON body that adds passwordConfirm; HTTP errors are read as
\* responses, transport failures propagate; the id is read from the last body.
\* Each request is logged with the response it got.
RommCreateUser(sid, username, password, r1, r2) ==
    LET second == r1 = "422"
        final  == IF second THEN r2 ELSE r1
        raised == r1 = "conn" \/ (second /\ r2 = "conn")
    IN  [events  |-> <<EvCreate(sid, username, password), Ev("post_params", sid), Ev(r1, sid)>>
                     \o (IF second THEN <<Ev("post_json_confirm", sid), Ev(r2, sid)>> ELSE <<>>)
                     \o <<Ev(Returned(raised, final = "201"), sid)>>,
         raised  |-> raised,
         hasId   |-> final = "201",
         created |-> Created(r1) \/ (second /\ Created(r2))]

(* ------------------------------- join --------------------------------- *)
UserRow(id, token, username, email, code, expires, sid) ==
    [id |-> id, token |-> token, username |-> username, email |-> email,
     code |-> code, expires |-> expires, server_id |-> sid]

\* Mutant: the invitation is validated before the passwords are compared.
JoinInputError_InviteBeforeMatch(selfSid, username, password, confirm, email, code) ==
    IF ~EMAIL_RE(email) THEN "Invalid e-mail address."
    ELSE IF ~(8 <= Len(password) /\ Len(password) <= 20) THEN "Password must be 8-20 characters."
    ELSE IF ~is_invite_valid(invitations, now, code).ok THEN is_invite_valid(invitations, now, code).msg
    ELSE IF password # confirm THEN "Passwords do not match."
    ELSE IF \E u \in users : (u.username = username \/ u.email = email) /\ u.server_id = selfSid
         THEN "User or e-mail already exists."
    ELSE ""

\* Mutant: a join is turned away while another join on the same code is past
\* its checks and has not returned yet.
JoinInputError_Claimed(selfSid, username, password, confirm, email, code) ==
    IF ~EMAIL_RE(email) THEN "Invalid e-mail address."
    ELSE IF ~(8 <= Len(password) /\ Len(password) <= 20) THEN "Password must be 8-20 characters."
    ELSE IF password # confirm THEN "Passwords do not match."
    ELSE IF ~is_invite_valid(invitations, now, code).ok THEN is_invite_valid(invitations, now, code).msg
    ELSE IF \E q \in DOMAIN calls : calls[q].pc \in {"checked", "created"} /\ calls[q].code = code
         THEN "ALREADY_USED"
    ELSE IF \E u \in users : (u.username = username \/ u.email = email) /\ u.server_id = selfSid
         THEN "User or e-mail already exists."
    ELSE ""

\* The five checks both clients make before the vendor is contacted; the
\* message of the first one that fails, "" when all pass.
JoinInputError(selfSid, username, password, confirm, email, code) ==
    IF ~EMAIL_RE(email) THEN "Invalid e-mail address."
    ELSE IF ~(8 <= Len(password) /\ Len(password) <= 20) THEN "Password must be 8-20 characters."
    ELSE IF password # confirm THEN "Passwords do not match."
    ELSE IF ~is_invite_valid(invitations, now, code).ok THEN is_invite_valid(invitations, now, code).msg
    ELSE IF \E u \in users : (u.username = username \/ u.email = email) /\ u.server_id = selfSid
         THEN "User or e-mail already exists."
    ELSE ""

\* The outcome of a request: its result and the tables it leaves behind.
Outcome(ok, msg, events, us, invs, led, nuid, rem, nvid) ==
    [ok |-> ok, msg |-> msg, events |-> events, users |-> us, invitations |-> invs,
     ledger |-> led, nextUserId |-> nuid, remote |-> rem, nextUid |-> nvid]

Rejected(msg) ==
    Outcome(FALSE, msg, <<>>, users, invitations, ledger, nextUserId, remote, nextUid)

\* The vendors' accounts after a create_user call that hands out id nvid.
RemoteAdd(rem, nvid, sid, username, cu) ==
    IF cu.created THEN rem \cup {[server |-> sid, uid |-> nvid, username |-> username]} ELSE rem

RemoteAfter(sid, username, cu) == RemoteAdd(remote, nextUid, sid, username, cu)

NextUidAfter(cu) == IF cu.created THEN nextUid + 1 ELSE nextUid

\* Mutant: the row is added and committed before the statement that fails.
JoinUnexpected_RowKept(sid, username, cu) ==
    Outcome(FALSE, "An unexpected error occurred.", cu.events \o <<Ev("rollback", sid)>>,
            users \cup {[id |-> nextUserId, token |-> nextUid, username |-> username, email |-> <<>>,
                         code |-> NoCode, expires |-> NoExpiry, server_id |-> sid]},
            invitations, ledger, nextUserId + 1, RemoteAfter(sid, username, cu), NextUidAfter(cu))

\* except Exception: log, db.session.rollback(), return (False, ...): the local
\* tables are as before, the vendor keeps whatever it created.
JoinUnexpected(sid, username, cu) ==
    Outcome(FALSE, "An unexpected error occurred.", cu.events \o <<Ev("rollback", sid)>>,
            users, invitations, ledger, nextUserId, RemoteAfter(sid, username, cu), NextUidAfter(cu))

ExpiresFor(inv) == IF inv.duration # NoDuration THEN now + inv.duration ELSE NoExpiry

\* The committed row, used_by and mark_server_used of a join that got through.
JoinCommitted(selfSid, username, email, code, i, sid, expires, cu) ==
    LET row  == UserRow(nextUserId, nextUid, username, email, code, expires, sid)
        invs == [invitations EXCEPT ![i].used_by = row.id]
    IN  Outcome(TRUE, "", cu.events \o <<Ev("commit", selfSid)>>,
                users \cup {row}, mark_server_used(invs, ledger, i, sid),
                LedgerMarked(ledger, i, sid), nextUserId + 1,
                RemoteAfter(selfSid, username, cu), NextUidAfter(cu))

\* KomgaClient.join
komga_join(selfSid, username, password, confirm, email, code, r1) ==
    LET err == JoinInputError(selfSid, username, password, confirm, email, code)
        cu  == KomgaCreateUser(selfSid, username, password, r1)
        i   == InvByCodeExact(invitations, code)
    IN  IF err # "" THEN Rejected(err)
        ELSE IF cu.raised THEN JoinUnexpected(selfSid, username, cu)
        \* inv is None: inv.libraries raises AttributeError
        ELSE IF i = 0 THEN JoinUnexpected(selfSid, username, cu)
        ELSE JoinCommitted(selfSid, username, email, code, i, invitations[i].server,
                           ExpiresFor(invitations[i]), cu)

\* RommClient.join
romm_join(selfSid, username, password, confirm, email, code, r1, r2) ==
    LET err == JoinInputError(selfSid, username, password, confirm, email, code)
        cu  == RommCreateUser(selfSid, username, password, r1, r2)
        i   == InvByCodeExact(invitations, code)
    IN  IF err # "" THEN Rejected(err)
        ELSE IF cu.raised THEN JoinUnexpected(selfSid, username, cu)
        \* token=None violates the NOT NULL column at commit
        ELSE IF ~cu.hasId THEN JoinUnexpected(selfSid, username, cu)
        \* inv is None: the row is committed with no server and no expiry,
        \* and the invitation is left alone
        ELSE IF i = 0
             THEN Outcome(TRUE, "", cu.events \o <<Ev("commit", selfSid)>>,
                          users \cup {UserRow(nextUserId, nextUid, username, email, code, NoExpiry, NoServer)},
                          invitations, ledger, nextUserId + 1,
                          RemoteAfter(selfSid, username, cu), NextUidAfter(cu))
        ELSE JoinCommitted(selfSid, username, email, code, i, invitations[i].server,
                           ExpiresFor(invitations[i]), cu)

(* ------------------------------ inputs -------------------------------- *)
Pw(c, n) == [i \in 1..n |-> c]

UserAl == <<"a", "l">>
UserBo == <<"b", "o">>

MailA == <<"a", "@", "x", ".", "i", "o">>
MailB == <<"b", "@", "x", ".", "i", "o">>
MailNoTld == <<"a", "@", "x", ".", "i">>

Form(username, password, confirm, email) ==
    [username |-> username, password |-> password, confirm |-> confirm, email |-> email,
     generate |-> FALSE]

\* Sign-up forms: well-formed ones that do and do not collide with each other,
\* and ill-formed ones that fail one, two or three of the field checks.
JoinForms ==
    {Form(UserAl, Pw("p", 8), Pw("p", 8), MailA),
     Form(UserBo, Pw("p", 20), Pw("p", 20), MailB),
     Form(UserAl, Pw("q", 8), Pw("q", 8), MailB),
     Form(UserAl, Pw("p", 7), Pw("q", 8), MailNoTld),
     Form(UserAl, Pw("p", 7), Pw("q", 8), MailA),
     Form(UserAl, Pw("p", 21), Pw("p", 21), MailA),
     Form(UserAl, Pw("p", 8), Pw("q", 8), MailA)}

CodeAB == <<"A", "B">>
CodeCD == <<"C", "D">>
CodeEF == <<"E", "F">>
CodeZZ == <<"Z", "Z">>

JoinCodes == {CodeAB, lower(CodeAB), CodeCD, lower(CodeCD), CodeZZ}

KomgaScripts == {"201", "201_noid", "500"}

RommScripts ==
    {<<"201", "201">>, <<"201_noid", "201">>, <<"500", "201">>, <<"conn", "201">>,
     <<"422", "201">>, <<"422", "422">>, <<"422", "conn">>}

(* ------------------------------- tables ------------------------------- *)
MediaServer(id, server_type, url, api_key, verified) ==
    [id |-> id, server_type |-> server_type, url |-> url, api_key |-> api_key, verified |-> verified]

ServerTable ==
    {MediaServer(1, "plex", "u1", "k1", TRUE), MediaServer(2, "jellyfin", "u1", "k1", TRUE),
     MediaServer(3, "romm", "u1", "k1", TRUE), MediaServer(4, "komga", "u1", "k1", TRUE),
     MediaServer(5, "emby", "u1", "k1", TRUE)}

Invitation(code, expires, unlimited, duration, server, attached) ==
    [code |-> code, used |-> FALSE, used_by |-> NoUser, expires |-> expires,
     unlimited |-> unlimited, duration |-> duration, server |-> server, servers |-> attached]

NoSession == [invite_code |-> NoCode, invite_token |-> "", wizard_access |-> NoCode]

\* No request in flight.
Idle ==
    [op |-> "idle", client |-> NoServer, form |-> Form(<<>>, <<>>, <<>>, <<>>), code |-> NoCode,
     ok |-> TRUE, msg |-> "", events |-> <<>>, users0 |-> {}, invitations0 |-> <<>>,
     session0 |-> NoSession, okJoins0 |-> <<>>, returned |-> {},
     servers0 |-> {}, libraries0 |-> {}, ledger0 |-> {}, steps0 |-> {}, stype |-> "", count |-> 0]

\* A request that has been served: what came in, what went out, and the tables
\* as they were when it came in.
Served(op, sid, form, code, ok, msg, events) ==
    [op |-> op, client |-> sid, form |-> form, code |-> code, ok |-> ok, msg |-> msg,
     events |-> events, users0 |-> users, invitations0 |-> invitations,
     session0 |-> session, okJoins0 |-> okJoins, returned |-> {},
     servers0 |-> servers, libraries0 |-> libraries, ledger0 |-> ledger, steps0 |-> steps,
     stype |-> "", count |-> 0]

InitCommon ==
    /\ servers = ServerTable
    /\ ledger = {}
    /\ users = {}
    /\ nextUserId = 1
    /\ remote = {}
    /\ nextUid = 1
    /\ now = 0
    /\ session = NoSession
    /\ oauth = <<>>
    /\ libraries = {}
    /\ calls = <<>>
    /\ steps = {}
    /\ last = Idle

\* Self-service sign-up: one invitation on the Komga server and one on the RomM
\* server, each attached to that server alone, single-use or unlimited.
InitJoin ==
    /\ InitCommon
    /\ \E unl \in BOOLEAN :
         invitations = <<Invitation(CodeAB, 1, unl, 1, 4, <<4>>),
                         Invitation(CodeCD, NoExpiry, unl, NoDuration, 3, <<3>>)>>
    /\ okJoins = [i \in DOMAIN invitations |-> 0]

(* ------------------------------ actions ------------------------------- *)
\* The clock moves on between requests.
Tick ==
    /\ last.op = "idle"
    /\ now < MaxTime
    /\ now' = now + 1
    /\ UNCHANGED <<servers, invitations, ledger, users, nextUserId, remote, nextUid,
                   session, oauth, libraries, calls, okJoins, last, steps>>

\* The response goes out; the next request can come in.
Respond ==
    /\ last.op # "idle"
    /\ last' = Idle
    /\ UNCHANGED <<servers, invitations, ledger, users, nextUserId, remote, nextUid,
                   now, session, oauth, libraries, calls, okJoins, steps>>

\* The client that serves a code: that of the invitation's server, or of the
\* first configured server when the invitation names none.
JoinClient(code, sid) ==
    LET i == InvByCodeLower(invitations, code)
    IN  \/ i = 0
        \/ i # 0 /\ sid = (IF invitations[i].server # NoServer THEN invitations[i].server ELSE FirstServer)

\* How many joins on each invitation's code, in any spelling, returned (True, "").
OkJoinsAfter(code, ok) ==
    LET i == InvByCodeLower(invitations, code)
    IN  IF ok /\ i # 0 THEN [okJoins EXCEPT ![i] = @ + 1] ELSE okJoins

JoinApply(op, sid, form, code, res) ==
    /\ users' = res.users
    /\ invitations' = res.invitations
    /\ ledger' = res.ledger
    /\ nextUserId' = res.nextUserId
    /\ remote' = res.remote
    /\ nextUid' = res.nextUid
    /\ okJoins' = OkJoinsAfter(code, res.ok)
    /\ last' = Served(op, sid, form, code, res.ok, res.msg, res.events)
    /\ UNCHANGED <<servers, now, session, oauth, libraries, calls, steps>>

KomgaJoin ==
    /\ last.op = "idle"
    /\ nextUid <= MaxUid
    /\ \E sid \in {s \in ServerIds : ServerTypeOf(s) = "komga"}, f \in JoinForms, code \in JoinCodes :
         /\ JoinClient(code, sid)
         /\ \E r1 \in KomgaScripts :
              JoinApply("komga_join", sid, f, code,
                        komga_join(sid, f.username, f.password, f.confirm, f.email, code, r1))

RommJoin ==
    /\ last.op = "idle"
    /\ nextUid <= MaxUid
    /\ \E sid \in {s \in ServerIds : ServerTypeOf(s) = "romm"}, f \in JoinForms, code \in JoinCodes :
         /\ JoinClient(code, sid)
         /\ \E r \in RommScripts :
              JoinApply("romm_join", sid, f, code,
                        romm_join(sid, f.username, f.password, f.confirm, f.email, code, r[1], r[2]))

NextJoin == KomgaJoin \/ RommJoin \/ Tick \/ Respond

SpecJoin == InitJoin /\ [][NextJoin]_vars

(* ======================= join: claims C1, C2, C3, C5, C10 ============== *)
IsJoin == last.op \in {"komga_join", "romm_join"}

HasEvent(kind) == \E k \in DOMAIN last.events : last.events[k].kind = kind

FieldsWellFormed(f) ==
    /\ EMAIL_RE(f.email)
    /\ 8 <= Len(f.password)
    /\ Len(f.password) <= 20
    /\ f.password = f.confirm

CollidesBefore ==
    \E u \in last.users0 :
        (u.username = last.form.username \/ u.email = last.form.email) /\ u.server_id = last.client

\* C1: join answers with the error of the first failing check, in the order
\* e-mail format, password length 8..20, password = confirm, invitation
\* validity, username/e-mail collision on the client's server, and calls the
\* vendor's create_user only when all five pass.
C1_ValidationOrder ==
    IsJoin =>
        LET f  == last.form
            e1 == ~EMAIL_RE(f.email)
            e2 == Len(f.password) < 8 \/ Len(f.password) > 20
            e3 == f.password # f.confirm
            v  == is_invite_valid(last.invitations0, now, last.code)
            e5 == CollidesBefore
        IN  /\ e1 => ~last.ok /\ last.msg = "Invalid e-mail address."
            /\ ~e1 /\ e2 => ~last.ok /\ last.msg = "Password must be 8-20 characters."
            /\ ~e1 /\ ~e2 /\ e3 => ~last.ok /\ last.msg = "Passwords do not match."
            /\ ~e1 /\ ~e2 /\ ~e3 /\ ~v.ok => ~last.ok /\ last.msg = v.msg
            /\ ~e1 /\ ~e2 /\ ~e3 /\ v.ok /\ e5 => ~last.ok /\ last.msg = "User or e-mail already exists."
            /\ HasEvent("create_user") <=> (~e1 /\ ~e2 /\ ~e3 /\ v.ok /\ ~e5)

\* C1 witness: a well-formed join on a valid code got as far as the fifth check
\* (the collision) and was stopped there, before the vendor was called.
C1_Witness ==
    /\ IsJoin
    /\ FieldsWellFormed(last.form)
    /\ is_invite_valid(last.invitations0, now, last.code).ok
    /\ CollidesBefore
    /\ last.msg = "User or e-mail already exists."
    /\ ~HasEvent("create_user")

\* The invitation whose code the join was called with (0 when there is none).
JoinedInv == InvByCodeLower(last.invitations0, last.code)

\* C2: a join with well-formed fields on the code of a valid single-use
\* invitation, for which the vendor's create_user returned the new account,
\* returns (True, ""), adds exactly one User row, carrying that code and the
\* invitation's server, and leaves the invitation used with used_by that row.
C2_JoinRedeems ==
    (/\ IsJoin
     /\ JoinedInv # 0
     /\ FieldsWellFormed(last.form)
     /\ HasEvent("uid")
     /\ ~last.invitations0[JoinedInv].unlimited)
    => /\ last.ok
       /\ last.msg = ""
       /\ last.users0 \subseteq users
       /\ Cardinality(users \ last.users0) = 1
       /\ \A u \in users \ last.users0 :
            /\ u.code = last.code
            /\ u.server_id = last.invitations0[JoinedInv].server
            /\ invitations[JoinedInv].used_by = u.id
       /\ invitations[JoinedInv].used

\* C3: of the joins made one after another on a single-use invitation's code at
\* most one returns (True, ""); each join after it is rejected, as already used
\* when nothing checked earlier rejects it, without a create_user call and
\* without a new User row.
C3_SingleUseOnce ==
    \A i \in DOMAIN invitations :
        ~invitations[i].unlimited =>
            /\ okJoins[i] <= 1
            /\ (IsJoin /\ JoinedInv = i /\ last.okJoins0[i] >= 1) =>
                   /\ ~last.ok
                   /\ ~HasEvent("create_user")
                   /\ users = last.users0
                   /\ (FieldsWellFormed(last.form)
                       /\ ~(invitations[i].expires # NoExpiry /\ invitations[i].expires <= now))
                      => last.msg = "ALREADY_USED"

\* C5: codes match case-insensitively all through redemption: a join that
\* returns (True, "") on any case variant of a valid single-use invitation's
\* code has marked that invitation used and set its used_by.
C5_CaseInsensitiveJoin ==
    LET i == InvByCodeLower(last.invitations0, last.code)
    IN  (IsJoin /\ last.ok /\ i # 0 /\ ~last.invitations0[i].unlimited)
        => invitations[i].used /\ invitations[i].used_by # NoUser

PlexUsername == <<"b", "b">>
PlexEmail == MailB

OAuthTokens == {"T1"}

PromptCodes == {CodeEF, lower(CodeEF), CodeZZ}

PromptForm(password, confirm, generate) ==
    [username |-> <<>>, password |-> password, confirm |-> confirm, email |-> <<>>,
     generate |-> generate]

PromptForms ==
    {PromptForm(Pw("p", 8), Pw("p", 8), FALSE), PromptForm(Pw("p", 8), Pw("p", 8), TRUE),
     PromptForm(<<>>, <<>>, TRUE), PromptForm(Pw(" ", 8), Pw(" ", 8), FALSE),
     PromptForm(Pw("p", 7), Pw("p", 7), FALSE), PromptForm(Pw("p", 8), Pw("q", 8), FALSE)}

\* What secrets.choice can draw: 16 symbols of ascii_letters + digits.
GeneratedPasswords == {Pw("g", 16), Pw("1", 16)}

\* What each vendor answers during one provisioning request.
PromptScripts ==
    [jellyfin : {"201", "500"}, emby : {"201"}, audiobookshelf : {"201"},
     romm : {<<"201", "201">>, <<"422", "422">>, <<"conn", "201">>, <<"201_noid", "201">>}]

\* Redemption through Plex: one invitation, either attached to Plex alone or to
\* Plex first, then RomM, Komga and Jellyfin in that order of attachment.
InitPrompt ==
    /\ InitCommon
    /\ \E unl \in BOOLEAN, att \in {<<1, 3, 4, 2>>, <<1>>} :
         invitations = <<Invitation(CodeEF, 1, unl, 1, 1, att)>>
    /\ okJoins = [i \in DOMAIN invitations |-> 0]

\* handle_oauth_token(app, token, code): invite the Plex account behind the
\* token and record it: a User row on the Plex server, used_by, the ledger.
handle_oauth_token(sid, code, accepted) ==
    LET i    == InvByCodeLower(invitations, code)
        row  == UserRow(nextUserId, nextUid, PlexUsername, PlexEmail, code, ExpiresFor(invitations[i]), sid)
        invs == [invitations EXCEPT ![i].used_by = IF @ = NoUser THEN row.id ELSE @]
    IN  IF accepted
        THEN Outcome(TRUE, "", <<Ev("handle_oauth_token", sid), Ev("commit", sid)>>,
                     users \cup {row}, mark_server_used(invs, ledger, i, sid),
                     LedgerMarked(ledger, i, sid), nextUserId + 1,
                     remote \cup {[server |-> sid, uid |-> nextUid, username |-> PlexUsername]},
                     nextUid + 1)
        ELSE Outcome(FALSE, "", <<Ev("handle_oauth_token", sid), Ev("rollback", sid)>>,
                     users, invitations, ledger, nextUserId, remote, nextUid)

\* server = invitation.server or MediaServer.query.first()
ServerOfInvitation(i) ==
    IF invitations[i].server # NoServer THEN invitations[i].server ELSE FirstServer

\* Mutant: every attached server counts as an extra one.
ExtraServers_All(i) == invitations[i].servers

\* extra = [s for s in invitation.servers if s.server_type != "plex"]
ExtraServers(i) == SelectSeq(invitations[i].servers, LAMBDA sid : ServerTypeOf(sid) # "plex")

Apply(res) ==
    /\ users' = res.users
    /\ invitations' = res.invitations
    /\ ledger' = res.ledger
    /\ nextUserId' = res.nextUserId
    /\ remote' = res.remote
    /\ nextUid' = res.nextUid

\* Mutant: only an unknown code ends the request.
RouteRejects_NotFoundOnly(v) == v.msg = "NOT_FOUND"

\* if not valid: render the login page with the reason
RouteRejects(v) == ~v.ok

\* POST /join
JoinRoute ==
    /\ last.op = "idle"
    /\ nextUid <= MaxUid
    /\ \E code \in PromptCodes, token \in OAuthTokens, accepted \in BOOLEAN :
         LET i     == InvByCodeLower(invitations, code)
             v     == is_invite_valid(invitations, now, code)
             sid   == IF i = 0 THEN NoServer ELSE ServerOfInvitation(i)
             stype == ServerTypeOf(sid)
             req   == PromptForm(<<>>, <<>>, FALSE)
         IN  IF RouteRejects(v)
             THEN /\ last' = Served("join_route", sid, req, code, FALSE, v.msg, <<>>)
                  /\ UNCHANGED <<servers, invitations, ledger, users, nextUserId, remote,
                                 nextUid, now, session, oauth, libraries, calls, okJoins, steps>>
             ELSE IF stype = "plex"
             THEN LET res == handle_oauth_token(sid, code, accepted)
                  IN  /\ Apply(res)
                      /\ IF Len(ExtraServers(i)) > 0
                         THEN /\ session' = [session EXCEPT !.invite_code = code, !.invite_token = token]
                              /\ last' = Served("join_route", sid, req, code, TRUE,
                                                "redirect:password_prompt", res.events)
                         ELSE /\ session' = [session EXCEPT !.wizard_access = code]
                              /\ last' = Served("join_route", sid, req, code, TRUE,
                                                "redirect:wizard", res.events)
                      /\ UNCHANGED <<servers, now, oauth, libraries, calls, okJoins, steps>>
             ELSE /\ last' = Served("join_route", sid, req, code,
                                    stype \in {"jellyfin", "emby", "audiobookshelf", "romm"},
                                    IF stype \in {"jellyfin", "emby", "audiobookshelf", "romm"}
                                    THEN "render:welcome-jellyfin" ELSE "Configuration error.",
                                    <<>>)
                  /\ UNCHANGED <<servers, invitations, ledger, users, nextUserId, remote,
                                 nextUid, now, session, oauth, libraries, calls, okJoins, steps>>

\* The create_user of the Jellyfin, Emby and Audiobookshelf clients: the new
\* account's id, or an exception.
GenericCreateUser(sid, username, password, r1) ==
    [events  |-> <<EvCreate(sid, username, password), Ev(Returned(r1 # "201", TRUE), sid)>>,
     raised  |-> r1 # "201",
     hasId   |-> r1 = "201",
     created |-> Created(r1)]

\* plex_server = next((s for s in invitation.servers if s.server_type == "plex"), None)
PlexServerOf(inv) ==
    LET plexes == SelectSeq(inv.servers, LAMBDA sid : ServerTypeOf(sid) = "plex")
    IN  IF Len(plexes) = 0 THEN NoServer ELSE Head(plexes)

\* User.query.filter_by(code=code, server_id=plex_server.id).first(): the row's id, or NoUser.
PlexUserOf(inv, code) ==
    LET hits == {u \in users : u.code = code /\ u.server_id = PlexServerOf(inv)}
    IN  IF PlexServerOf(inv) = NoServer \/ hits = {} THEN NoUser
        ELSE CHOOSE n \in {u.id : u \in hits} : \A m \in {u.id : u \in hits} : n <= m

UserById(n) == CHOOSE u \in users : u.id = n

DefaultUsername == <<"w", "i", "z", "a", "r", "r">>
DefaultEmail == <<"u", "s", "e", "r", "@", "e", "x", "a", "m", "p", "l", "e", ".", "c", "o", "m">>

\* username = plex_user.username if plex_user else (... if plex_user else "wizarr")
PromptUsername(plexUser) == IF plexUser # NoUser THEN UserById(plexUser).username ELSE DefaultUsername

\* email = plex_user.email if plex_user else "user@example.com"
PromptEmail(plexUser) == IF plexUser # NoUser THEN UserById(plexUser).email ELSE DefaultEmail

\* The vendor types the loop has a create_user branch for.
PromptHandles(stype) == stype \in {"jellyfin", "emby", "audiobookshelf", "romm"}

PromptCreateUser(sid, username, password, script) ==
    IF ServerTypeOf(sid) = "romm"
    THEN RommCreateUser(sid, username, password, script.romm[1], script.romm[2])
    ELSE GenericCreateUser(sid, username, password, script[ServerTypeOf(sid)])

\* Mutant: the row is committed also when create_user returned no id.
ProvisionOne_RowWithoutId(st, i, code, sid, username, email, password, script) ==
    LET cu  == PromptCreateUser(sid, username, password, script)
        row == UserRow(st.nextUserId, st.nextUid, username, email, code, NoExpiry, sid)
        rem == RemoteAdd(st.remote, st.nextUid, sid, username, cu)
        nv  == IF cu.created THEN st.nextUid + 1 ELSE st.nextUid
        inv == [st.invitations EXCEPT ![i].used_by = IF @ = NoUser THEN row.id ELSE @]
    IN  IF ServerTypeOf(sid) = "plex" \/ ~PromptHandles(ServerTypeOf(sid)) THEN st
        ELSE IF cu.raised
        THEN [st EXCEPT !.events = @ \o cu.events \o <<Ev("rollback", sid)>>,
                        !.remote = rem, !.nextUid = nv]
        ELSE [st EXCEPT !.events = @ \o cu.events \o <<Ev("commit", sid)>>,
                        !.users = @ \cup {row},
                        !.invitations = mark_server_used(inv, st.ledger, i, sid),
                        !.ledger = LedgerMarked(st.ledger, i, sid),
                        !.nextUserId = @ + 1, !.remote = rem, !.nextUid = nv]

\* One turn of the loop over invitation.servers: Plex and unknown types are
\* passed over; otherwise create_user, then the row, commit, used_by and
\* mark_server_used, or rollback when anything raised.
ProvisionOne(st, i, code, sid, username, email, password, script) ==
    LET cu  == PromptCreateUser(sid, username, password, script)
        row == UserRow(st.nextUserId, st.nextUid, username, email, code, NoExpiry, sid)
        rem == RemoteAdd(st.remote, st.nextUid, sid, username, cu)
        nv  == IF cu.created THEN st.nextUid + 1 ELSE st.nextUid
        inv == [st.invitations EXCEPT ![i].used_by = IF @ = NoUser THEN row.id ELSE @]
    IN  IF ServerTypeOf(sid) = "plex" \/ ~PromptHandles(ServerTypeOf(sid)) THEN st
        ELSE IF cu.raised \/ ~cu.hasId
        THEN [st EXCEPT !.events = @ \o cu.events \o <<Ev("rollback", sid)>>,
                        !.remote = rem, !.nextUid = nv]
        ELSE [st EXCEPT !.events = @ \o cu.events \o <<Ev("commit", sid)>>,
                        !.users = @ \cup {row},
                        !.invitations = mark_server_used(inv, st.ledger, i, sid),
                        !.ledger = LedgerMarked(st.ledger, i, sid),
                        !.nextUserId = @ + 1, !.remote = rem, !.nextUid = nv]

\* Mutant: the servers are walked from the last attached to the first.
ProvisionOrder_Reversed(inv) == [k \in 1..Len(inv.servers) |-> inv.servers[Len(inv.servers) + 1 - k]]

\* for srv in invitation.servers
ProvisionOrder(inv) == inv.servers

RECURSIVE Provision(_, _, _, _, _, _, _, _)
Provision(k, st, i, code, username, email, password, script) ==
    LET order == ProvisionOrder(st.invitations[i])
    IN  IF k > Len(order) THEN st
        ELSE Provision(k + 1, ProvisionOne(st, i, code, order[k], username, email, password, script),
                       i, code, username, email, password, script)

\* if request.form.get("generate") or pw.strip() == ""
WantsGenerated(f) == f.generate \/ \A k \in DOMAIN f.password : f.password[k] = " "

\* GET and POST /j/<code>/password
PasswordPrompt ==
    /\ last.op = "idle"
    /\ nextUid <= MaxUid
    /\ \E code \in PromptCodes, method \in {"GET", "POST"}, f \in PromptForms,
          gen \in GeneratedPasswords, script \in PromptScripts :
         LET i        == InvByCodeLower(invitations, code)
             plexUser == PlexUserOf(invitations[i], code)
             pw       == IF WantsGenerated(f) THEN gen ELSE f.password
             st0      == Outcome(TRUE, "", <<>>, users, invitations, ledger, nextUserId, remote, nextUid)
             res      == Provision(1, st0, i, code, PromptUsername(plexUser), PromptEmail(plexUser), pw, script)
         IN  IF i = 0
             THEN /\ last' = Served("password_prompt", NoServer, f, code, FALSE, "Invalid invite", <<>>)
                  /\ UNCHANGED <<servers, invitations, ledger, users, nextUserId, remote,
                                 nextUid, now, session, oauth, libraries, calls, okJoins, steps>>
             ELSE IF method = "GET"
             THEN /\ last' = Served("password_prompt", NoServer, f, code, FALSE, "render:choose-password", <<>>)
                  /\ UNCHANGED <<servers, invitations, ledger, users, nextUserId, remote,
                                 nextUid, now, session, oauth, libraries, calls, okJoins, steps>>
             ELSE IF f.password # f.confirm \/ Len(f.password) < 8
             THEN /\ last' = Served("password_prompt", NoServer, f, code, FALSE,
                                    "Passwords do not match or too short (8 chars).", <<>>)
                  /\ UNCHANGED <<servers, invitations, ledger, users, nextUserId, remote,
                                 nextUid, now, session, oauth, libraries, calls, okJoins, steps>>
             ELSE /\ Apply(res)
                  /\ session' = [session EXCEPT !.wizard_access = code]
                  /\ last' = Served("password_prompt", NoServer, f, code, TRUE, "redirect:wizard", res.events)
                  /\ UNCHANGED <<servers, now, oauth, libraries, calls, okJoins, steps>>

NextPrompt == JoinRoute \/ PasswordPrompt \/ Tick \/ Respond

SpecPrompt == InitPrompt /\ [][NextPrompt]_vars

(* ================= password step: claims C6, C7, C8, C9 =============== *)
IsPrompt == last.op = "password_prompt"

\* The request got past the password check and ran the provisioning loop.
Provisioned == IsPrompt /\ last.ok

PromptInv == InvByCodeLower(last.invitations0, last.code)

EventsOf(kind, sid) == {k \in DOMAIN last.events : last.events[k].kind = kind /\ last.events[k].server = sid}

NewRowsOn(sid) == {u \in users \ last.users0 : u.server_id = sid}

\* A User row with the invitation's code and the server's id: the ledger entry
\* for (invitation i, server sid) before the request.
HadLedgerRow(i, sid) ==
    \E u \in last.users0 : lower(u.code) = lower(last.invitations0[i].code) /\ u.server_id = sid

\* C6: the password step validates the invitation again: on an invitation that
\* is expired or already used by then, it calls no create_user, adds no User row
\* and does not grant wizard access.
C6_PromptRevalidates ==
    (IsPrompt /\ PromptInv # 0 /\ ~is_invite_valid(last.invitations0, now, last.code).ok)
    => /\ ~HasEvent("create_user")
       /\ users = last.users0
       /\ session.wizard_access = last.session0.wizard_access

\* C7: running the provisioning step again calls create_user on no server that
\* already has its ledger entry, and adds no User row for it.
C7_PromptIdempotent ==
    (IsPrompt /\ PromptInv # 0) =>
        \A sid \in Range(last.invitations0[PromptInv].servers) :
            HadLedgerRow(PromptInv, sid) => EventsOf("create_user", sid) = {} /\ NewRowsOn(sid) = {}

\* C8: in the provisioning step, whichever servers' create_user fails, every
\* attached non-Plex server is attempted, those that succeed get their User row,
\* those that fail get none, and the step ends by granting wizard access.
C8_PartialFailure ==
    (Provisioned /\ PromptInv # 0) =>
        /\ \A sid \in Range(last.invitations0[PromptInv].servers) :
             ServerTypeOf(sid) # "plex" =>
                 /\ Cardinality(EventsOf("create_user", sid)) = 1
                 /\ EventsOf("uid", sid) # {} => Cardinality(NewRowsOn(sid)) = 1
                 /\ EventsOf("uid", sid) = {} => NewRowsOn(sid) = {}
        /\ session.wizard_access = last.code

CreateCalls == SelectSeq(last.events, LAMBDA e : e.kind = "create_user")

PositionIn(seq, x) == CHOOSE k \in DOMAIN seq : seq[k] = x

\* C9: the provisioning step calls create_user on one server at a time, in the
\* order in which the servers are attached to the invitation, and commits or
\* rolls back for one server before it calls the next.
C9_SequentialInOrder ==
    (Provisioned /\ PromptInv # 0) =>
        LET order == last.invitations0[PromptInv].servers
        IN  /\ \A a, b \in DOMAIN CreateCalls :
                 a < b => PositionIn(order, CreateCalls[a].server) < PositionIn(order, CreateCalls[b].server)
            /\ \A k \in DOMAIN last.events :
                 last.events[k].kind = "create_user" =>
                     \E m \in DOMAIN last.events :
                         /\ m > k
                         /\ last.events[m].kind \in {"commit", "rollback"}
                         /\ last.events[m].server = last.events[k].server
                         /\ \A j \in (k + 1)..(m - 1) :
                              last.events[j].kind \notin {"create_user", "commit", "rollback"}

\* C9 witness: a run in which the first attempted server failed and was rolled
\* back and a later one was created and committed.
C9_Witness ==
    /\ Provisioned
    /\ Len(CreateCalls) >= 2
    /\ \E k, m \in DOMAIN last.events :
         /\ k < m
         /\ last.events[k].kind = "rollback"
         /\ last.events[m].kind = "commit"
         /\ last.events[k].server # last.events[m].server

(* ===================== legacy POST /join (connect) ==================== *)
ConnectCodes == {CodeAB, lower(CodeAB), CodeCD, CodeZZ}

MsgNotExist == "That invite code does not exist."
MsgAlreadyUsed == "That invite code has already been used."
MsgExpired == "That invite code has expired."

\* One Plex-only invitation that expires and one that never does, each
\* single-use or unlimited.
InitConnect ==
    /\ InitCommon
    /\ \E unl \in BOOLEAN :
         invitations = <<Invitation(CodeAB, 1, unl, NoDuration, 1, <<1>>),
                         Invitation(CodeCD, NoExpiry, unl, NoDuration, 1, <<1>>)>>
    /\ okJoins = [i \in DOMAIN invitations |-> 0]

\* Mutant: a used invitation is turned away whether unlimited or not.
ConnectError_UsedOnly(invs, t, code) ==
    LET i == InvByCodeExact(invs, code)
    IN  IF i = 0 THEN MsgNotExist
        ELSE IF invs[i].used THEN MsgAlreadyUsed
        ELSE IF invs[i].expires # NoExpiry /\ invs[i].expires <= t THEN MsgExpired
        ELSE ""

\* The three checks of connect, in the order of the code; "" when all pass.
ConnectError(invs, t, code) ==
    LET i == InvByCodeExact(invs, code)
    IN  IF i = 0 THEN MsgNotExist
        ELSE IF invs[i].used /\ ~invs[i].unlimited THEN MsgAlreadyUsed
        ELSE IF invs[i].expires # NoExpiry /\ invs[i].expires <= t THEN MsgExpired
        ELSE ""

\* Oauth.create(): a new record without a URL, its thread started, the request
\* thread waiting for the URL.
OauthRow(code) == [code |-> code, url |-> "", thread |-> "started", waiting |-> TRUE]

\* connect up to the start of the background thread.
Connect ==
    /\ last.op = "idle"
    /\ \E code \in ConnectCodes :
         LET err == ConnectError(invitations, now, code)
         IN  IF err # ""
             THEN /\ last' = Served("connect", NoServer, Idle.form, code, FALSE, err, <<>>)
                  /\ oauth' = oauth
             ELSE /\ Len(oauth) < MaxOauth
                  /\ oauth' = Append(oauth, OauthRow(code))
                  /\ last' = Served("connect", NoServer, Idle.form, code, TRUE, "",
                                    <<Ev("oauth_create", NoServer), Ev("thread_start", NoServer)>>)
    /\ UNCHANGED <<servers, invitations, ledger, users, nextUserId, remote, nextUid,
                   now, session, okJoins, libraries, calls, steps>>

\* Mutant: the request thread redirects without looking at the URL.
ConnectRedirect_NoWait ==
    /\ \E k \in DOMAIN oauth :
         /\ oauth[k].waiting
         /\ oauth' = [oauth EXCEPT ![k].waiting = FALSE]
    /\ UNCHANGED <<servers, invitations, ledger, users, nextUserId, remote, nextUid,
                   now, session, okJoins, last, libraries, calls, steps>>

\* while not Oauth.get_by_id(oauth.id).url: pass; then the redirect.
ConnectRedirect ==
    /\ \E k \in DOMAIN oauth :
         /\ oauth[k].waiting
         /\ oauth[k].url # ""
         /\ oauth' = [oauth EXCEPT ![k].waiting = FALSE]
    /\ UNCHANGED <<servers, invitations, ledger, users, nextUserId, remote, nextUid,
                   now, session, okJoins, last, libraries, calls, steps>>

\* The background thread stores the Plex sign-in URL in its Oauth record.
PlexOAuthStoreUrl ==
    /\ \E k \in DOMAIN oauth :
         /\ oauth[k].thread = "started"
         /\ oauth' = [oauth EXCEPT ![k].url = "https://app.plex.tv/auth", ![k].thread = "url_stored"]
    /\ UNCHANGED <<servers, invitations, ledger, users, nextUserId, remote, nextUid,
                   now, session, okJoins, last, libraries, calls, steps>>

\* The background thread dies before it has stored a URL.
PlexOAuthFail ==
    /\ \E k \in DOMAIN oauth :
         /\ oauth[k].thread = "started"
         /\ oauth' = [oauth EXCEPT ![k].thread = "failed"]
    /\ UNCHANGED <<servers, invitations, ledger, users, nextUserId, remote, nextUid,
                   now, session, okJoins, last, libraries, calls, steps>>

\* The visitor has signed in to Plex: the thread invites the account and marks
\* the invitation used.
PlexOAuthFinish ==
    /\ \E k \in DOMAIN oauth :
         /\ oauth[k].thread = "url_stored"
         /\ oauth' = [oauth EXCEPT ![k].thread = "done"]
         /\ LET i == InvByCodeExact(invitations, oauth[k].code)
            IN  invitations' = IF i = 0 THEN invitations ELSE [invitations EXCEPT ![i].used = TRUE]
    /\ UNCHANGED <<servers, ledger, users, nextUserId, remote, nextUid,
                   now, session, okJoins, last, libraries, calls, steps>>

NextConnect ==
    Connect \/ ConnectRedirect \/ PlexOAuthStoreUrl \/ PlexOAuthFail \/ PlexOAuthFinish \/ Tick \/ Respond

SpecConnect == InitConnect /\ [][NextConnect]_vars

IsConnect == last.op = "connect"

\* C4: a redemption attempt with an existing code whose expiry has passed is
\* rejected with the expired reason, whatever the used and unlimited flags of
\* the invitation are, and starts no OAuth work.
C4_ExpiredFirst ==
    LET i == InvByCodeExact(last.invitations0, last.code)
    IN  (IsConnect /\ i # 0 /\ last.invitations0[i].expires # NoExpiry
                  /\ last.invitations0[i].expires <= now)
        => /\ ~last.ok
           /\ last.msg = MsgExpired
           /\ ~HasEvent("oauth_create")

(* ============================== list_users ============================ *)
\* What GET /users can come back with.
KomgaFetches == {"list", "fail"}
RommFetches == {"list", "items", "notlist", "fail"}

SyncServers == {s \in ServerIds : ServerTypeOf(s) \in {"komga", "romm"}}

\* The accounts the vendor of server sid reports.
Upstream(sid) == {r \in remote : r.server = sid}

UpstreamIds(up) == {r.uid : r \in up}

\* How many of the accounts in m come before r in the vendor's list.
RankIn(m, r) == Cardinality({q \in m : q.uid < r.uid})

CodeEmpty == <<"e", "m", "p", "t", "y">>
CodeRomm == <<"r", "o", "m", "m">>

\* Mutant: every reported account counts as unknown.
RommUnknown_All(us, sid, up) == up

\* Komga: the reported accounts that no User row, of any server, has as token.
KomgaUnknown(us, sid, up) == {r \in up : ~\E u \in us : u.token = r.uid}

\* RomM: the reported accounts that no User row of this server has as token.
RommUnknown(us, sid, up) ==
    {r \in up : ~\E u \in us : u.token = r.uid /\ u.server_id = sid}

\* The rows of server sid whose token the vendor no longer reports are deleted.
DropGone(us, sid, ids) == {u \in us : ~(u.server_id = sid /\ u.token \notin ids)}

RowsOf(us, sid) == {u \in us : u.server_id = sid}

\* The result of list_users: what it returns, the User table and the next key.
Synced(ok, returned, us, nuid) == [ok |-> ok, returned |-> returned, users |-> us, nextUserId |-> nuid]

komga_list_users(sid, fetch) ==
    IF fetch = "fail" THEN Synced(FALSE, {}, users, nextUserId)
    ELSE LET up   == Upstream(sid)
             new  == KomgaUnknown(users, sid, up)
             rows == {UserRow(nextUserId + RankIn(new, r), r.uid, r.username, r.username,
                              CodeEmpty, NoExpiry, sid) : r \in new}
             us   == DropGone(users \cup rows, sid, UpstreamIds(up))
         IN  Synced(TRUE, RowsOf(us, sid), us, nextUserId + Cardinality(new))

\* Mutant: a known row is written again as list_users writes a new one.
RommUpdated_Placeholder(u, r) ==
    [u EXCEPT !.username = r.username, !.code = CodeRomm, !.expires = NoExpiry]

\* db_row.username = ru.get("username", ...): a known row takes the vendor's name.
RommUpdated(u, r) == [u EXCEPT !.username = r.username]

romm_list_users(sid, fetch) ==
    IF fetch = "fail" THEN Synced(FALSE, {}, users, nextUserId)
    ELSE LET up   == IF fetch = "notlist" THEN {} ELSE Upstream(sid)
             new  == RommUnknown(users, sid, up)
             rows == {UserRow(nextUserId + RankIn(new, r), r.uid, r.username, <<>>,
                              CodeRomm, NoExpiry, sid) : r \in new}
             upd  == {IF u.server_id = sid /\ u.token \in UpstreamIds(up)
                      THEN RommUpdated(u, CHOOSE r \in up : r.uid = u.token)
                      ELSE u : u \in users}
             us   == DropGone(upd \cup rows, sid, UpstreamIds(up))
         IN  Synced(fetch # "notlist", RowsOf(us, sid), us, nextUserId + Cardinality(new))

\* The names the vendor of server sid gives its accounts (Komga rows are never
\* updated, so one name is enough there).
UpstreamNames(sid) == IF ServerTypeOf(sid) = "romm" THEN {UserAl, UserBo} ELSE {UserAl}

InitSync ==
    /\ InitCommon
    /\ invitations = <<>>
    /\ okJoins = <<>>

\* The vendor's own account list changes: an account appears, is renamed, or goes.
UpstreamChange ==
    /\ last.op = "idle"
    /\ \E sid \in SyncServers, uid \in 1..MaxUid :
         \/ /\ ~\E r \in Upstream(sid) : r.uid = uid
            /\ \E n \in UpstreamNames(sid) :
                 remote' = remote \cup {[server |-> sid, uid |-> uid, username |-> n]}
         \/ \E r \in Upstream(sid) :
              /\ r.uid = uid
              /\ \/ remote' = remote \ {r}
                 \/ \E n \in UpstreamNames(sid) \ {r.username} :
                      remote' = (remote \ {r}) \cup {[r EXCEPT !.username = n]}
    /\ UNCHANGED <<servers, invitations, ledger, users, nextUserId, nextUid,
                   now, session, oauth, libraries, calls, okJoins, last, steps>>

SyncApply(op, sid, res) ==
    /\ users' = res.users
    /\ nextUserId' = res.nextUserId
    /\ last' = [Served(op, sid, Idle.form, NoCode, res.ok, "", <<>>) EXCEPT !.returned = res.returned]
    /\ UNCHANGED <<servers, invitations, ledger, remote, nextUid, now, session, oauth, libraries, calls, okJoins, steps>>

KomgaListUsers ==
    /\ last.op = "idle"
    /\ nextUserId <= MaxRows
    /\ \E sid \in {s \in ServerIds : ServerTypeOf(s) = "komga"}, fetch \in KomgaFetches :
         SyncApply("komga_list_users", sid, komga_list_users(sid, fetch))

RommListUsers ==
    /\ last.op = "idle"
    /\ nextUserId <= MaxRows
    /\ \E sid \in {s \in ServerIds : ServerTypeOf(s) = "romm"}, fetch \in RommFetches :
         SyncApply("romm_list_users", sid, romm_list_users(sid, fetch))

NextSync == UpstreamChange \/ KomgaListUsers \/ RommListUsers \/ Respond

SpecSync == InitSync /\ [][NextSync]_vars

IsListUsers == last.op \in {"komga_list_users", "romm_list_users"}

\* C11: after a list_users on server S whose upstream fetch succeeded, the
\* tokens of the User rows of S are exactly the ids the vendor reports, and
\* those rows are what list_users returned, whatever rows other servers hold.
C11_SyncMatchesUpstream ==
    (IsListUsers /\ last.ok) =>
        /\ {u.token : u \in RowsOf(users, last.client)} = UpstreamIds(Upstream(last.client))
        /\ last.returned = RowsOf(users, last.client)

\* The same call made again on the tables as they are now.
ListUsersAgain(fetch) ==
    IF last.op = "komga_list_users" THEN komga_list_users(last.client, fetch)
    ELSE romm_list_users(last.client, fetch)

\* C12: list_users called again right after a list_users, the vendor's list
\* unchanged, leaves the User table as the first call left it.
C12_SyncIdempotent ==
    (IsListUsers /\ last.ok) =>
        \A fetch \in {"list", "fail"} :
            /\ ListUsersAgain(fetch).users = users
            /\ ListUsersAgain(fetch).nextUserId = nextUserId

\* C12 witness: a list_users that both inserted a row and deleted one.
C12_Witness ==
    /\ IsListUsers
    /\ last.ok
    /\ users \ last.users0 # {}
    /\ last.users0 \ users # {}

(* ================= vendor failures: claims C13, C14 =================== *)
\* C13: no operation of the Komga or RomM client lets a failure of the vendor
\* escape as an exception: in particular no create_user call made by a join
\* ends by raising, and join itself returns a (bool, message) pair.
C13_NoVendorExceptionEscapes ==
    IsJoin => /\ ~HasEvent("raise")
              /\ last.ok \in BOOLEAN

Posts == SelectSeq(last.events, LAMBDA e : e.kind \in {"post_params", "post_json", "post_json_confirm"})

\* The response to the first request of the call.
FirstResponse ==
    LET k == CHOOSE j \in DOMAIN last.events : last.events[j].kind = "post_params"
    IN  last.events[k + 1].kind

\* C14: RommClient.create_user sends at most two POSTs: first one with query
\* parameters, then one with a JSON body carrying passwordConfirm exactly when
\* the first response was a 422; after the second none follows.
C14_OneFallback ==
    (last.op = "romm_join" /\ HasEvent("create_user")) =>
        /\ Len(Posts) \in {1, 2}
        /\ Posts[1].kind = "post_params"
        /\ Len(Posts) = 2 <=> FirstResponse = "422"
        /\ Len(Posts) = 2 => Posts[2].kind = "post_json_confirm"

\* C14 witness: the fallback request was sent and failed too, and the call
\* ended there.
C14_Witness ==
    /\ last.op = "romm_join"
    /\ Len(Posts) = 2
    /\ FirstResponse = "422"
    /\ ~HasEvent("uid")

(* ============ password step and POST /join: claims C15, C16, C17 ====== *)
\* plex_user.email.split("@")[0]: the text before the first "@".
LocalPart(s) ==
    IF \E k \in DOMAIN s : s[k] = "@"
    THEN SubSeq(s, 1, (CHOOSE k \in DOMAIN s : s[k] = "@" /\ \A j \in 1..(k - 1) : s[j] # "@") - 1)
    ELSE s

\* The Plex rows recorded for the invitation before the request.
PlexRowsOf(i) ==
    {u \in last.users0 : /\ lower(u.code) = lower(last.invitations0[i].code)
                         /\ ServerTypeOf(u.server_id) = "plex"}

\* C15: in the password step the username given to every password-auth server
\* is the local part of the Plex identity's e-mail, and "wizarr" only when the
\* invitation has no Plex identity row.
C15_UsernameFromEmail ==
    (Provisioned /\ PromptInv # 0) =>
        \A k \in DOMAIN last.events :
            last.events[k].kind = "create_user" =>
                IF PlexRowsOf(PromptInv) = {}
                THEN last.events[k].username = DefaultUsername
                ELSE \E u \in PlexRowsOf(PromptInv) : last.events[k].username = LocalPart(u.email)

\* The redeemer did not choose a password: the box is ticked, or both fields
\* are empty.
OptsOut(f) == f.generate \/ (f.password = <<>> /\ f.confirm = <<>>)

\* C16: a POST of the password step by a redeemer who did not choose a password
\* is not rejected and provisions with a generated password of 16 ASCII letters
\* and digits.
C16_GeneratedPassword ==
    (IsPrompt /\ PromptInv # 0 /\ last.msg # "render:choose-password" /\ OptsOut(last.form)) =>
        /\ last.ok
        /\ \A k \in DOMAIN last.events :
             last.events[k].kind = "create_user" =>
                 /\ Len(last.events[k].password) = 16
                 /\ Range(last.events[k].password) \subseteq UpperLetters \cup LowerLetters \cup Digits

IsJoinRoute == last.op = "join_route"

RouteInv == InvByCodeLower(last.invitations0, last.code)

\* C17: after the Plex OAuth step of POST /join on a valid invitation, an
\* invitation with a non-Plex server has code and token put in the session and
\* the redeemer sent to the password prompt, without wizard access in that
\* request; wizard access is granted at once only when there is no non-Plex
\* server.
C17_DeferToPasswordPrompt ==
    (IsJoinRoute /\ HasEvent("handle_oauth_token")) =>
        IF \E sid \in Range(last.invitations0[RouteInv].servers) : ServerTypeOf(sid) # "plex"
        THEN /\ last.msg = "redirect:password_prompt"
             /\ session.invite_code = last.code
             /\ session.invite_token \in OAuthTokens
             /\ session.wizard_access = last.session0.wizard_access
        ELSE /\ last.msg = "redirect:wizard"
             /\ session.wizard_access = last.code

\* C17 witness: a first POST /join on an invitation with further servers went
\* through Plex and left for the password prompt, wizard access not yet given.
C17_Witness ==
    /\ IsJoinRoute
    /\ HasEvent("handle_oauth_token")
    /\ Len(last.invitations0[RouteInv].servers) > 1
    /\ last.msg = "redirect:password_prompt"
    /\ session.invite_code = last.code
    /\ session.wizard_access = NoCode

(* ===================== two joins at once: claim C18 =================== *)
Callers == {1, 2}

\* Who calls with what: two different people, the same code.
CallerForm(p) == IF p = 1 THEN Form(UserAl, Pw("p", 8), Pw("p", 8), MailA)
                 ELSE Form(UserBo, Pw("p", 8), Pw("p", 8), MailB)

RaceCodes == {CodeAB, CodeCD}

RaceResponses == {"201", "500"}

\* A join call between its steps.
Call(pc, sid, form, code, uid, ok, msg) ==
    [pc |-> pc, client |-> sid, form |-> form, code |-> code, uid |-> uid, ok |-> ok, msg |-> msg]

\* join up to the collision check: the five checks, on the tables as they are.
RaceBegin ==
    /\ \E p \in Callers \ DOMAIN calls, code \in RaceCodes, sid \in ServerIds :
         /\ ServerTypeOf(sid) \in {"komga", "romm"}
         /\ JoinClient(code, sid)
         /\ LET f   == CallerForm(p)
                err == JoinInputError(sid, f.username, f.password, f.confirm, f.email, code)
            IN  calls' = (p :> (IF err # "" THEN Call("done", sid, f, code, NoToken, FALSE, err)
                                ELSE Call("checked", sid, f, code, NoToken, FALSE, ""))) @@ calls
    /\ UNCHANGED <<servers, invitations, ledger, users, nextUserId, remote, nextUid,
                   now, session, oauth, okJoins, libraries, last, steps>>

\* user_id = self.create_user(...): the vendor creates the account, or the
\* call raises and join rolls back and returns.
RaceCreate ==
    /\ nextUid <= MaxUid
    /\ \E p \in DOMAIN calls, r \in RaceResponses :
         /\ calls[p].pc = "checked"
         /\ LET c  == calls[p]
                cu == IF ServerTypeOf(c.client) = "komga"
                      THEN KomgaCreateUser(c.client, c.form.username, c.form.password, r)
                      ELSE RommCreateUser(c.client, c.form.username, c.form.password, r, r)
            IN  /\ remote' = RemoteAfter(c.client, c.form.username, cu)
                /\ nextUid' = NextUidAfter(cu)
                /\ calls' = [calls EXCEPT ![p] =
                               IF cu.raised \/ ~cu.hasId
                               THEN Call("done", c.client, c.form, c.code, NoToken, FALSE,
                                         "An unexpected error occurred.")
                               ELSE Call("created", c.client, c.form, c.code, nextUid, FALSE, "")]
    /\ UNCHANGED <<servers, invitations, ledger, users, nextUserId,
                   now, session, oauth, okJoins, libraries, last, steps>>

\* The rest of join: the invitation is read, the row committed, used_by set
\* and the server marked used.
RaceCommit ==
    /\ \E p \in DOMAIN calls :
         /\ calls[p].pc = "created"
         /\ LET c    == calls[p]
                i    == InvByCodeExact(invitations, c.code)
                row  == UserRow(nextUserId, c.uid, c.form.username, c.form.email, c.code,
                                ExpiresFor(invitations[i]), invitations[i].server)
                invs == [invitations EXCEPT ![i].used_by = row.id]
            IN  /\ i # 0
                /\ users' = users \cup {row}
                /\ nextUserId' = nextUserId + 1
                /\ invitations' = mark_server_used(invs, ledger, i, invitations[i].server)
                /\ ledger' = LedgerMarked(ledger, i, invitations[i].server)
                /\ okJoins' = OkJoinsAfter(c.code, TRUE)
                /\ calls' = [calls EXCEPT ![p] = Call("done", c.client, c.form, c.code, c.uid, TRUE, "")]
    /\ UNCHANGED <<servers, remote, nextUid, now, session, oauth, libraries, last, steps>>

NextRace == RaceBegin \/ RaceCreate \/ RaceCommit

SpecRace == InitJoin /\ [][NextRace]_vars

\* Both callers have returned (True, "") on the same code of a single-use invitation.
BothJoined(p, q) ==
    /\ p # q
    /\ {p, q} \subseteq DOMAIN calls
    /\ calls[p].pc = "done" /\ calls[p].ok
    /\ calls[q].pc = "done" /\ calls[q].ok
    /\ calls[p].code = calls[q].code
    /\ ~invitations[InvByCodeExact(invitations, calls[p].code)].unlimited

\* C18: nothing keeps a second join out while a first one on the same
\* single-use code is between its validity check and its commit: the second
\* passes the checks too, and when both have returned (True, "") each has its
\* own remote account and its own committed User row for that code.
C18_NoClaimStep ==
    /\ \A p \in DOMAIN calls, q \in Callers \ DOMAIN calls :
         calls[p].pc \in {"checked", "created"} =>
             JoinInputError(calls[p].client, CallerForm(q).username, CallerForm(q).password,
                            CallerForm(q).confirm, CallerForm(q).email, calls[p].code) = ""
    /\ \A p, q \in Callers :
         BothJoined(p, q) =>
             /\ calls[p].uid # calls[q].uid
             /\ \A c \in {p, q} :
                  /\ \E r \in remote : r.uid = calls[c].uid /\ r.server = calls[c].client
                  /\ \E u \in users : u.token = calls[c].uid /\ u.code = calls[c].code

\* C18 witness: both joins on the single-use code have returned (True, "").
C18_Witness == BothJoined(1, 2)

(* ======================== server administration ======================= *)
\* What the admin submits: type, URL and credential of a server.
ServerForms ==
    {[server_type |-> "romm", server_url |-> "u1", api_key |-> "k1"],
     [server_type |-> "komga", server_url |-> "u2", api_key |-> "k2"]}

ExternalIds == {"L1", "L2"}

ScannedName == "N"

Library(external_id, name, server_id, enabled) ==
    [external_id |-> external_id, name |-> name, server_id |-> server_id, enabled |-> enabled]

\* _check_connection: the checker the server type is sent to.
Checker(stype) ==
    IF stype \in {"plex", "emby", "audiobookshelf", "romm"} THEN stype ELSE "jellyfin"

ProbeEvents(data, ok) ==
    <<Ev("check_" \o Checker(data.server_type), NoServer),
      Ev(IF ok THEN "probe_ok" ELSE "probe_fail", NoServer)>>

\* The primary key the next MediaServer row gets.
NewServerId == IF servers = {} THEN 1 ELSE 1 + CHOOSE i \in ServerIds : \A j \in ServerIds : j <= i

LibOf(libs, fid, sid) == {l \in libs : l.external_id = fid /\ l.server_id = sid}

\* Library.external_id is unique: a commit that adds a second row with an
\* external id the table already has fails.
CommitFails(libs, added) == \E a \in added : \E l \in libs : l.external_id = a.external_id

\* What a request of the admin leaves behind.
Admin(ok, msg, events, srv, libs, us) ==
    [ok |-> ok, msg |-> msg, events |-> events, servers |-> srv, libraries |-> libs, users |-> us,
     reported |-> {}]

\* POST /settings/servers/create. built: whether MediaServer(...) takes the
\* Jellyfin toggles it is passed here, which models.py does not declare.
create_server(data, ok, built, chosen) ==
    IF ~ok THEN Admin(FALSE, "render:create-server", ProbeEvents(data, ok), servers, libraries, users)
    ELSE IF ~built THEN Admin(FALSE, "500", ProbeEvents(data, ok), servers, libraries, users)
    ELSE LET sid   == NewServerId
             row   == MediaServer(sid, data.server_type, data.server_url, data.api_key, TRUE)
             added == {Library(fid, fid, sid, TRUE) : fid \in chosen}
         IN  IF CommitFails(libraries, added)
             THEN Admin(FALSE, "500", ProbeEvents(data, ok), servers \cup {row}, libraries, users)
             ELSE Admin(TRUE, "redirect:list_servers", ProbeEvents(data, ok),
                        servers \cup {row}, libraries \cup added, users)

\* Mutant: the edit is stored whatever the probe said.
edit_server_Unchecked(sid, data, ok, chosen) ==
    Admin(TRUE, "redirect:list_servers", ProbeEvents(data, ok),
          {IF r.id = sid
           THEN [r EXCEPT !.server_type = data.server_type, !.url = data.server_url, !.api_key = data.api_key]
           ELSE r : r \in servers},
          libraries, users)

\* POST /settings/servers/<id>/edit
edit_server(sid, data, ok, chosen) ==
    IF sid \notin ServerIds THEN Admin(FALSE, "404", <<>>, servers, libraries, users)
    ELSE IF ~ok THEN Admin(FALSE, "render:edit-server", ProbeEvents(data, ok), servers, libraries, users)
    ELSE Admin(TRUE, "redirect:list_servers", ProbeEvents(data, ok),
               {IF r.id = sid
                THEN [r EXCEPT !.server_type = data.server_type, !.url = data.server_url, !.api_key = data.api_key]
                ELSE r : r \in servers},
               IF chosen = {} THEN libraries
               ELSE {IF l.server_id = sid THEN [l EXCEPT !.enabled = l.external_id \in chosen] ELSE l
                     : l \in libraries},
               users)

\* Mutant: the rows of the server that the scan did not report are removed.
scan_server_libraries_Prune(sid, raised, items) ==
    IF sid \notin ServerIds \/ raised THEN Admin(FALSE, "500", <<Ev("scan", sid)>>, servers, libraries, users)
    ELSE [Admin(TRUE, "render:library_checkboxes", <<Ev("scan", sid), Ev("commit", sid)>>, servers,
                {l \in libraries : l.server_id # sid \/ l.external_id \in items}, users)
          EXCEPT !.reported = items]

\* POST /settings/servers/<id>/scan-libraries; items: the external ids the
\* vendor reported; raised: the scan raised instead.
scan_server_libraries(sid, raised, items) ==
    IF sid \notin ServerIds THEN Admin(FALSE, "404", <<>>, servers, libraries, users)
    ELSE IF raised THEN Admin(FALSE, "500", <<Ev("scan", sid)>>, servers, libraries, users)
    ELSE LET added   == {Library(fid, ScannedName, sid, TRUE) : fid \in {x \in items : LibOf(libraries, x, sid) = {}}}
             renamed == {IF l.server_id = sid /\ l.external_id \in items THEN [l EXCEPT !.name = ScannedName] ELSE l
                         : l \in libraries}
         IN  IF CommitFails(libraries, added)
             THEN [Admin(FALSE, "500", <<Ev("scan", sid), Ev("rollback", sid)>>, servers, libraries, users)
                   EXCEPT !.reported = items]
             ELSE [Admin(TRUE, "render:library_checkboxes", <<Ev("scan", sid), Ev("commit", sid)>>,
                         servers, renamed \cup added, users)
                   EXCEPT !.reported = items]

\* DELETE /settings/servers/?delete=<id>
delete_server(sid) ==
    Admin(TRUE, "204", <<>>, {r \in servers : r.id # sid}, libraries, {u \in users : u.server_id # sid})

\* One RomM server with one synced User row, no Library row yet.
InitAdmin ==
    /\ servers = {MediaServer(1, "romm", "u1", "k1", TRUE)}
    /\ users = {UserRow(1, 1, UserAl, <<>>, CodeRomm, NoExpiry, 1)}
    /\ nextUserId = 2
    /\ invitations = <<>>
    /\ okJoins = <<>>
    /\ ledger = {}
    /\ remote = {[server |-> 1, uid |-> 1, username |-> UserAl]}
    /\ nextUid = 2
    /\ now = 0
    /\ session = NoSession
    /\ oauth = <<>>
    /\ libraries = {}
    /\ calls = <<>>
    /\ steps = {}
    /\ last = Idle

AdminApply(op, sid, res) ==
    /\ servers' = res.servers
    /\ libraries' = res.libraries
    /\ users' = res.users
    /\ last' = [Served(op, sid, Idle.form, NoCode, res.ok, res.msg, res.events)
                 EXCEPT !.returned = res.reported]
    /\ UNCHANGED <<invitations, ledger, nextUserId, remote, nextUid, now, session, oauth, okJoins, calls, steps>>

CreateServer ==
    /\ last.op = "idle"
    /\ Cardinality(servers) < MaxServers
    /\ NewServerId <= MaxServerId
    /\ \E data \in ServerForms, ok \in BOOLEAN, built \in BOOLEAN, chosen \in SUBSET ExternalIds :
         AdminApply("create_server", NoServer, create_server(data, ok, built, chosen))

EditServer ==
    /\ last.op = "idle"
    /\ \E sid \in ServerIds, data \in ServerForms, ok \in BOOLEAN, chosen \in SUBSET ExternalIds :
         AdminApply("edit_server", sid, edit_server(sid, data, ok, chosen))

ScanLibraries ==
    /\ last.op = "idle"
    /\ \E sid \in ServerIds, raised \in BOOLEAN, items \in SUBSET ExternalIds :
         AdminApply("scan_server_libraries", sid, scan_server_libraries(sid, raised, items))

DeleteServer ==
    /\ last.op = "idle"
    /\ \E sid \in ServerIds :
         AdminApply("delete_server", sid, delete_server(sid))

\* GET /settings/servers/<id>/ping: probe the stored type, URL and credential.
ping_server(sid, ok) ==
    LET row == ServerRow(sid)
    IN  Admin(ok, IF ok THEN "Connected" ELSE "Connection Error",
              ProbeEvents([server_type |-> row.server_type, server_url |-> row.url, api_key |-> row.api_key], ok),
              servers, libraries, users)

PingServer ==
    /\ last.op = "idle"
    /\ \E sid \in ServerIds, ok \in BOOLEAN :
         AdminApply("ping_server", sid, ping_server(sid, ok))

NextAdmin == CreateServer \/ EditServer \/ ScanLibraries \/ DeleteServer \/ PingServer \/ Respond

SpecAdmin == InitAdmin /\ [][NextAdmin]_vars

\* C19: every User row and every Library row references a MediaServer row that
\* exists, after any sequence of server creation, library scan and server
\* deletion.
C19_RowsOwnedByServer ==
    /\ \A u \in users : u.server_id \in ServerIds
    /\ \A l \in libraries : l.server_id \in ServerIds

IsCreateServer == last.op = "create_server"
IsEditServer == last.op = "edit_server"

\* C20: a MediaServer row is created (verified) or has URL, credential and type
\* changed by an edit only in a request whose connectivity probe returned ok;
\* after a failed probe no MediaServer or Library row is created or changed.
C20_ProbeGatesWrites ==
    (IsCreateServer \/ IsEditServer) =>
        /\ servers # last.servers0 => HasEvent("probe_ok")
        /\ \A r \in servers \ last.servers0 : IsCreateServer => r.verified
        /\ HasEvent("probe_fail") => servers = last.servers0 /\ libraries = last.libraries0

\* C20 witness: an edit whose probe succeeded changed the stored URL of a server.
C20_Witness ==
    /\ IsEditServer
    /\ HasEvent("probe_ok")
    /\ \E r \in servers : \E r0 \in last.servers0 : r.id = r0.id /\ r.url # r0.url

IsScan == last.op = "scan_server_libraries"

\* C21: after a library scan of a server that reported a set of external ids,
\* that server has exactly one Library row for each reported id, also when
\* another server already has a row with the same external id.
C21_ExternalIdPerServer ==
    IsScan /\ HasEvent("scan") =>
        \A fid \in last.returned : Cardinality(LibOf(libraries, fid, last.client)) = 1

\* C22: a redemption attempt on an unlimited invitation is never rejected as
\* already used, however often the invitation has been redeemed; while it is
\* unexpired the attempt passes the checks.
C22_UnlimitedStaysUsable ==
    LET i == InvByCodeExact(last.invitations0, last.code)
    IN  (IsConnect /\ i # 0 /\ last.invitations0[i].unlimited)
        => /\ last.msg # MsgAlreadyUsed
           /\ (last.invitations0[i].expires = NoExpiry \/ last.invitations0[i].expires > now) => last.ok

\* C22 witness: an attempt on an unlimited invitation that an earlier
\* redemption has marked used passed the checks.
C22_Witness ==
    LET i == InvByCodeExact(last.invitations0, last.code)
    IN  /\ IsConnect
        /\ i # 0
        /\ last.invitations0[i].unlimited
        /\ last.invitations0[i].used
        /\ last.ok

\* C23: POST /join with a code that fails validation (unknown, expired or
\* already used) ends the request without any effect: handle_oauth_token is not
\* called, the session is as before, and no User or Invitation row has changed.
C23_InvalidCodeTerminal ==
    (IsJoinRoute /\ ~is_invite_valid(last.invitations0, now, last.code).ok) =>
        /\ ~last.ok
        /\ ~HasEvent("handle_oauth_token")
        /\ session = last.session0
        /\ users = last.users0
        /\ invitations = last.invitations0

\* C23 witness: POST /join on a single-use invitation that an earlier
\* redemption has used up was turned away, with a session that already held
\* entries of the earlier redemption.
C23_Witness ==
    /\ IsJoinRoute
    /\ RouteInv # 0
    /\ last.invitations0[RouteInv].used
    /\ ~last.invitations0[RouteInv].unlimited
    /\ last.msg = "ALREADY_USED"
    /\ last.session0 # NoSession

\* C24: every User row the deferred provisioning step creates from an
\* invitation with a duration expires at its creation time plus the duration,
\* and a row created from an invitation without duration has no expiry.
C24_ExpiryFromDuration ==
    Provisioned =>
        \A u \in users \ last.users0 :
            u.expires = IF last.invitations0[PromptInv].duration # NoDuration
                        THEN now + last.invitations0[PromptInv].duration
                        ELSE NoExpiry

\* C25: a successful join leaves the used_by link of an invitation alone when
\* the invitation had one before the join.
C25_UsedByKept ==
    (IsJoin /\ last.ok) =>
        \A i \in DOMAIN last.invitations0 :
            last.invitations0[i].used_by # NoUser => invitations[i].used_by = last.invitations0[i].used_by

VendorTypes == {"plex", "jellyfin", "emby", "audiobookshelf", "romm", "komga"}

\* C26: redemption covers every vendor type: the deferred provisioning step
\* makes exactly one create_user attempt on every attached non-Plex server that
\* has no ledger entry, and POST /join on a valid invitation whose server has one
\* of the six types does not end in the configuration error.
C26_EveryVendorTypeCovered ==
    /\ Provisioned =>
         \A sid \in Range(last.invitations0[PromptInv].servers) :
             (ServerTypeOf(sid) \in VendorTypes \ {"plex"} /\ ~HadLedgerRow(PromptInv, sid))
                 => Cardinality(EventsOf("create_user", sid)) = 1
    /\ (IsJoinRoute /\ RouteInv # 0 /\ is_invite_valid(last.invitations0, now, last.code).ok
                    /\ ServerTypeOf(last.client) \in VendorTypes)
         => last.msg # "Configuration error."

IsPing == last.op = "ping_server"

\* C27: the connectivity probe of a stored server is made by the checker of the
\* server's own vendor type, for each of the six types.
C27_OwnChecker ==
    (IsPing /\ ServerTypeOf(last.client) \in VendorTypes)
        => HasEvent("check_" \o ServerTypeOf(last.client))

\* C28: for an invitation that includes a Plex server, the password step calls
\* create_user on a non-Plex server only when a User row with the invitation's
\* code on the Plex server existed before.
C28_PlexBeforeOthers ==
    (IsPrompt /\ PromptInv # 0 /\ PlexServerOf(last.invitations0[PromptInv]) # NoServer
              /\ HasEvent("create_user"))
        => HadLedgerRow(PromptInv, PlexServerOf(last.invitations0[PromptInv]))

(* ================= redemption on RomM by both routes ================== *)
\* One single-use invitation on the RomM server alone, redeemed through the
\* sign-up form, and one on Plex with RomM attached, redeemed through Plex and
\* the password step.
InitRedeem ==
    /\ InitCommon
    /\ invitations = <<Invitation(CodeCD, NoExpiry, FALSE, NoDuration, 3, <<3>>),
                       Invitation(CodeEF, NoExpiry, FALSE, NoDuration, 1, <<1, 3>>)>>
    /\ okJoins = [i \in DOMAIN invitations |-> 0]

NextRedeem == RommJoin \/ JoinRoute \/ PasswordPrompt \/ Respond

SpecRedeem == InitRedeem /\ [][NextRedeem]_vars

\* The servers on which a create_user call of the request ended without an id.
WithoutId == {last.events[k].server : k \in {n \in DOMAIN last.events : last.events[n].kind = "none"}}

\* C29: a User row exists only for a remote account whose id the vendor
\* returned: when RommClient.create_user ended without an id, neither join nor
\* the password step has added a User row or a ledger entry for that server,
\* and every row they add carries the id of an account on the vendor's side.
C29_RowOnlyWithRemoteId ==
    /\ (last.op = "romm_join" /\ WithoutId # {}) =>
           /\ ~last.ok
           /\ users = last.users0
           /\ ledger = last.ledger0
    /\ Provisioned =>
           \A sid \in WithoutId :
               /\ NewRowsOn(sid) = {}
               /\ \A e \in ledger \ last.ledger0 : e[2] # sid
    /\ (last.op = "romm_join" \/ Provisioned) =>
           \A u \in users \ last.users0 :
               \E r \in remote : r.uid = u.token /\ r.server = (IF IsPrompt THEN u.server_id ELSE last.client)

\* C29 witness: the password step ran while RomM rejected both attempts, and
\* went on without a row for the RomM server.
C29_Witness ==
    /\ Provisioned
    /\ HasEvent("post_json_confirm")
    /\ WithoutId # {}

\* C30: a list_users whose upstream listing failed or was incomplete (transport
\* error, or a payload of an unexpected shape) deletes no User row.
C30_NoDeleteOnFailedFetch ==
    (IsListUsers /\ ~last.ok) => {u.id : u \in last.users0} \subseteq {u.id : u \in users}

(* ============== list_users on a table that holds joined rows ========== *)
\* The RomM server has one account that came in through an invitation: its row
\* carries the invitation's code and an expiry.
InitSyncJoined ==
    /\ servers = ServerTable
    /\ ledger = {}
    /\ users = {UserRow(1, 1, UserAl, MailA, CodeCD, 1, 3)}
    /\ nextUserId = 2
    /\ remote = {[server |-> 3, uid |-> 1, username |-> UserAl]}
    /\ nextUid = 2
    /\ now = 0
    /\ session = NoSession
    /\ oauth = <<>>
    /\ libraries = {}
    /\ calls = <<>>
    /\ steps = {}
    /\ last = Idle
    /\ invitations = <<>>
    /\ okJoins = <<>>

SpecSyncJoined == InitSyncJoined /\ [][NextSync]_vars

\* C31: list_users on server S leaves every User row of another server as it
\* was, and a row of S whose vendor id is still reported keeps its invite code
\* and its expiry.
C31_SyncFrame ==
    IsListUsers =>
        /\ \A u0 \in last.users0 : u0.server_id # last.client => u0 \in users
        /\ \A u \in users : u.server_id # last.client => u \in last.users0
        /\ \A u0 \in last.users0 :
             (u0.server_id = last.client /\ u0.token \in UpstreamIds(Upstream(last.client)))
                 => \A u \in users : u.id = u0.id => (u.code = u0.code /\ u.expires = u0.expires)

\* C31 witness: a RomM list_users renamed the joined row after the vendor, and
\* the row kept the invitation's code and its expiry.
C31_Witness ==
    /\ last.op = "romm_list_users"
    /\ \E u0 \in last.users0 : \E u \in users :
         /\ u.id = u0.id
         /\ u.username # u0.username
         /\ u.code = CodeCD
         /\ u.expires = 1

\* C32: after any sequence of join calls, one at a time, no two User rows that
\* join created with the same owner share a username or an e-mail address.
C32_UniquePerServer ==
    \A u1 \in users : \A u2 \in users :
        (u1.id # u2.id /\ u1.server_id = u2.server_id)
            => (u1.username # u2.username /\ u1.email # u2.email)

(* ========================= wizard step reset ========================== *)
\* The markdown files a default directory can hold, in the order sorted()
\* gives their paths.
FileOrder == <<"10-a.md", "20-b.md", "30-c.md">>

StepFiles == Range(FileOrder)

ResetTypes == {"plex", "jellyfin", "komga"}

WizardStep(server_type, position, title) ==
    [server_type |-> server_type, position |-> position, title |-> title]

\* md_files = sorted(server_dir.glob("*.md"))
SortedFiles(files) == SelectSeq(FileOrder, LAMBDA f : f \in files)

\* get_default_steps_for_server, for a directory that exists: one step per
\* file, its position the file's index in sorted order.
get_default_steps_for_server(files) ==
    [k \in 1..Len(SortedFiles(files)) |-> [title |-> SortedFiles(files)[k], position |-> k - 1]]

Reset(ok, msg, count, st) == [ok |-> ok, msg |-> msg, count |-> count, steps |-> st]

\* Mutant: the flushed delete outlives the failure.
ResetFailed_DeleteKept(server_type, msg) ==
    Reset(FALSE, msg, 0, {w \in steps : w.server_type # server_type})

\* db.session.rollback(); return (False, message, 0)
ResetFailed(server_type, msg) == Reset(FALSE, msg, 0, steps)

\* WizardResetService.reset_server_steps. exists, files: the default directory
\* of the type; parses: frontmatter reads every file; commits: the commit
\* goes through.
reset_server_steps(server_type, exists, files, parses, commits) ==
    LET defaults == get_default_steps_for_server(files)
    IN  IF ~exists THEN ResetFailed(server_type, "No default steps found for server type")
        ELSE IF files # {} /\ ~parses THEN ResetFailed(server_type, "Failed to reset steps")
        ELSE IF Len(defaults) = 0 THEN ResetFailed(server_type, "No default steps found for server type")
        ELSE IF ~commits THEN ResetFailed(server_type, "Failed to reset steps")
        ELSE Reset(TRUE, "Reset steps", Len(defaults),
                   {w \in steps : w.server_type # server_type}
                       \cup {WizardStep(server_type, defaults[k].position, defaults[k].title)
                             : k \in DOMAIN defaults})

\* No step is stored yet.
InitReset ==
    /\ InitCommon
    /\ invitations = <<>>
    /\ okJoins = <<>>

\* Steps the admin has written for Plex and for Jellyfin.
CustomSteps ==
    {WizardStep("plex", 0, "custom"), WizardStep("jellyfin", 0, "custom"),
     WizardStep("jellyfin", 1, "custom-2")}

\* The admin replaces the stored steps by their own.
CustomizeSteps ==
    /\ last.op = "idle"
    /\ steps # CustomSteps
    /\ steps' = CustomSteps
    /\ UNCHANGED <<servers, invitations, ledger, users, nextUserId, remote, nextUid,
                   now, session, oauth, okJoins, libraries, calls, last>>

ResetServerSteps ==
    /\ last.op = "idle"
    /\ \E server_type \in ResetTypes, exists \in BOOLEAN, files \in SUBSET StepFiles,
          parses \in BOOLEAN, commits \in BOOLEAN :
         LET res == reset_server_steps(server_type, exists, files, parses, commits)
         IN  /\ steps' = res.steps
             /\ last' = [Served("reset_server_steps", NoServer, Idle.form, NoCode, res.ok, res.msg, <<>>)
                         EXCEPT !.stype = server_type, !.count = res.count,
                                !.returned = IF exists THEN files ELSE {}]
    /\ UNCHANGED <<servers, invitations, ledger, users, nextUserId, remote, nextUid,
                   now, session, oauth, okJoins, libraries, calls>>

NextReset == CustomizeSteps \/ ResetServerSteps \/ Respond

SpecReset == InitReset /\ [][NextReset]_vars

IsReset == last.op = "reset_server_steps"

StepsOf(st, server_type) == {w \in st : w.server_type = server_type}

\* How many of the file names in FileOrder come before f.
FileRank(f) == CHOOSE k \in DOMAIN FileOrder : FileOrder[k] = f

\* C33: reset_server_steps is all-or-nothing for its server type. On success
\* the steps of the type are the default files' steps, one per file, at
\* positions 0..n-1 in file order, and n is the count returned; on failure the
\* count is 0 and the steps of the type are as before; the steps of the other
\* types are never touched.
C33_ResetAllOrNothing ==
    IsReset =>
        LET mine == StepsOf(steps, last.stype)
        IN  /\ steps \ mine = last.steps0 \ StepsOf(last.steps0, last.stype)
            /\ last.ok =>
                 /\ last.count = Cardinality(last.returned)
                 /\ last.count > 0
                 /\ Cardinality(mine) = last.count
                 /\ {w.title : w \in mine} = last.returned
                 /\ {w.position : w \in mine} = 0..(last.count - 1)
                 /\ \A w1 \in mine : \A w2 \in mine :
                      w1.position < w2.position <=> FileRank(w1.title) < FileRank(w2.title)
            /\ ~last.ok => (last.count = 0 /\ steps = last.steps0)

\* C33 witness: a reset failed on a type that had steps of its own stored, with
\* default files present, and the stored steps are all still there.
C33_Witness ==
    /\ IsReset
    /\ ~last.ok
    /\ last.returned # {}
    /\ StepsOf(last.steps0, last.stype) # {}
    /\ StepsOf(steps, last.stype) = StepsOf(last.steps0, last.stype)

(* ================= legacy connect: the waiting request ================ *)
\* One unlimited invitation on Plex. The request thread runs its loop: once the
\* URL is there, an iteration that sees it is eventually made. Nothing makes
\* the background thread succeed.
InitConnectFair ==
    /\ InitCommon
    /\ invitations = <<Invitation(CodeAB, 1, TRUE, NoDuration, 1, <<1>>)>>
    /\ okJoins = [i \in DOMAIN invitations |-> 0]

SpecConnectFair == InitConnectFair /\ [][NextConnect]_vars /\ WF_vars(ConnectRedirect)

\* The URL of Oauth record k is stored.
UrlStored(k) == k \in DOMAIN oauth /\ oauth[k].url # ""

\* The request thread of record k has left its loop and redirected.
Redirected(k) == k \in DOMAIN oauth /\ ~oauth[k].waiting

\* The request thread of record k is in its loop.
Spinning(k) == k \in DOMAIN oauth /\ oauth[k].waiting

\* The background thread of record k has died without storing a URL.
ThreadFailed(k) == k \in DOMAIN oauth /\ oauth[k].thread = "failed"

\* C34: the request thread of connect redirects only after the background
\* thread has stored a URL in the new Oauth record, and then it eventually
\* does; while no URL is stored, because the thread failed or has not run, the
\* request thread is still in its loop, and after a failure it stays there.
C34_RedirectAfterUrl ==
    /\ [](\A k \in 1..MaxOauth : Redirected(k) => UrlStored(k))
    /\ \A k \in 1..MaxOauth : UrlStored(k) ~> Redirected(k)
    /\ \A k \in 1..MaxOauth : [](ThreadFailed(k) => [](Spinning(k)))

\* C34 witness: one request has been redirected after its URL was stored, and
\* another is still waiting on a thread that has failed.
C34_Witness ==
    \E k \in DOMAIN oauth : \E m \in DOMAIN oauth :
        /\ ~oauth[k].waiting
        /\ oauth[k].url # ""
        /\ oauth[m].thread = "failed"
        /\ oauth[m].waiting

\* The Library row of the same server with the same external id.
SameLibrary(l, m) == l.external_id = m.external_id /\ l.server_id = m.server_id

\* C35: a library scan of a server only adds and renames. Every row that was
\* there is still there with its enabled flag, the rows of other servers are
\* exactly as before, and the same scan made again leaves the Library rows as
\* they are.
C35_ScanAddsAndRenames ==
    IsScan =>
        /\ \A l0 \in last.libraries0 : \E l \in libraries : SameLibrary(l, l0) /\ l.enabled = l0.enabled
        /\ {l \in libraries : l.server_id # last.client}
               = {l \in last.libraries0 : l.server_id # last.client}
        /\ \A l \in libraries :
             (\A l0 \in last.libraries0 : ~SameLibrary(l, l0))
                 => (l.server_id = last.client /\ l.external_id \in last.returned)
        /\ scan_server_libraries(last.client, FALSE, last.returned).libraries = libraries

\* C35 witness: a scan renamed a disabled row of its server, which stayed
\* disabled, and added a row for an id it had not seen before.
C35_Witness ==
    /\ IsScan
    /\ last.ok
    /\ \E l0 \in last.libraries0 : \E l \in libraries :
         /\ SameLibrary(l, l0)
         /\ l.name # l0.name
         /\ ~l0.enabled
         /\ ~l.enabled
    /\ \E l \in libraries : \A l0 \in last.libraries0 : ~SameLibrary(l, l0)

====
